---- MODULE Spec2Model ----
(***************************************************************************)
(* Diff-hunk extraction, range merging and context assembly of PRReviewer  *)
(* (src/src/temp.py, lines 34-142).                                        *)
(*                                                                         *)
(* Text is modelled as a sequence of one-character strings, so that the    *)
(* regular expression of parse_diff_hunks is matched character by          *)
(* character and numbers are parsed from their decimal digits.             *)
(***************************************************************************)
EXTENDS Integers, Sequences, FiniteSets, TLC

VARIABLES
    pc,                  \* control point of the running call
    entry,               \* which method was called from outside
    diff,                \* argument diff: sequence of characters
    pos,                 \* re.finditer's scan position in diff
    ranges,              \* parse_diff_hunks' list / merge_ranges' argument
    context_lines,       \* merge_ranges' argument
    sorted_ranges,       \* merge_ranges local
    idx,                 \* position of the for loop in sorted_ranges
    current_start,       \* merge_ranges local
    current_end,         \* merge_ranges local
    merged,              \* merge_ranges local
    ret,                 \* value returned by merge_ranges
    max_lines_per_range, \* get_relevant_file_content's argument
    merged_ranges,       \* get_relevant_file_content local
    lines,               \* content.splitlines(): line i is modelled by i
    k,                   \* position of the for loop in merged_ranges
    start,               \* loop-body local of get_relevant_file_content
    end,                 \* loop-body local of get_relevant_file_content
    relevant_contents,   \* get_relevant_file_content local
    exc,                 \* exception in flight, "none" when there is none
    file_content,        \* value returned by get_relevant_file_content
    invoked,             \* contexts handed to file_review_prompt.invoke
    segs,                \* the pieces the diff text was written from
    first                \* outcome of an earlier merge_ranges call

vars == <<pc, entry, diff, pos, ranges, context_lines, sorted_ranges, idx,
          current_start, current_end, merged, ret, max_lines_per_range,
          merged_ranges, lines, k, start, end, relevant_contents, exc,
          file_content, invoked, segs, first>>

-----------------------------------------------------------------------------
(* Bounds of the explored inputs.                                          *)

MaxLine == 3
MaxRanges == 3
MaxMargin == 1
NegMargin == 1
MaxStart == 11
MaxCount == 2
MaxHunks == 2
FarStart == 130
BigCount == 160
MaxReviewHunks == 2
MaxFileLines == 250
MaxSpanArg == 4
NegSpan == 1

(* Defaults of the code.                                                   *)
DefaultContextLines == 50
DefaultMaxLines == 200

-----------------------------------------------------------------------------
(* Arithmetic and sequences.                                               *)

Max(a, b) == IF a >= b THEN a ELSE b
Min(a, b) == IF a <= b THEN a ELSE b

SeqsUpTo(S, n) == UNION {[1..m -> S] : m \in 0..n}

-----------------------------------------------------------------------------
(* Decimal text.                                                           *)

DigitChars == <<"0", "1", "2", "3", "4", "5", "6", "7", "8", "9">>

IsDigit(c) == \E d \in 1..10 : DigitChars[d] = c

DigitVal(c) == (CHOOSE d \in 1..10 : DigitChars[d] = c) - 1

(* str(n) for n >= 0: the decimal digits of n, most significant first.     *)
RECURSIVE Digits(_)
Digits(n) ==
    IF n < 10 THEN <<DigitChars[n + 1]>>
    ELSE Digits(n \div 10) \o <<DigitChars[(n % 10) + 1]>>

(* int(text) for a non-empty run of decimal digits.                        *)
RECURSIVE ToInt(_)
ToInt(ds) ==
    IF ds = <<>> THEN 0
    ELSE ToInt(SubSeq(ds, 1, Len(ds) - 1)) * 10 + DigitVal(ds[Len(ds)])

-----------------------------------------------------------------------------
(* The regular expression of parse_diff_hunks,                             *)
(*     @@ -\d+(?:,\d+)? \+(\d+)(?:,(\d+))? @@                              *)
(* matched at one position.  Every \d+ is followed in the pattern by a     *)
(* character that is no digit, so the greedy match is the only match and   *)
(* no backtracking is lost.                                                *)

(* The position after lit when s holds lit at position i, and 0 otherwise. *)
LitEnd(s, i, lit) ==
    IF /\ i >= 1
       /\ i + Len(lit) - 1 <= Len(s)
       /\ SubSeq(s, i, i + Len(lit) - 1) = lit
    THEN i + Len(lit)
    ELSE 0

(* The position after the longest run of digits that starts at i.          *)
RECURSIVE DigitsEnd(_, _)
DigitsEnd(s, i) ==
    IF i >= 1 /\ i <= Len(s) /\ IsDigit(s[i]) THEN DigitsEnd(s, i + 1) ELSE i

(* \d+ at i: the position after it, 0 when there is no digit at i.         *)
NumEnd(s, i) == IF i >= 1 /\ DigitsEnd(s, i) > i THEN DigitsEnd(s, i) ELSE 0

(* (?:,\d+)? at i: the position after the group when it matches, else i.   *)
OptCountEnd(s, i) ==
    IF i = 0 THEN 0
    ELSE LET c == LitEnd(s, i, <<",">>)
         IN  IF c # 0 /\ NumEnd(s, c) # 0 THEN NumEnd(s, c) ELSE i

NoMatch == [ok |-> FALSE, stop |-> 0, g1 |-> <<>>, g2 |-> <<>>]

(* re.match of the pattern at position i.  g1 and g2 are the texts of the  *)
(* two groups; g2 is empty when the second group took no part (None).      *)
MatchAt(s, i) ==
    LET a0 == LitEnd(s, i, <<"@", "@", " ", "-">>)
        a1 == IF a0 = 0 THEN 0 ELSE NumEnd(s, a0)
        a2 == OptCountEnd(s, a1)
        c0 == IF a2 = 0 THEN 0 ELSE LitEnd(s, a2, <<" ", "+">>)
        c1 == IF c0 = 0 THEN 0 ELSE NumEnd(s, c0)
        c2 == OptCountEnd(s, c1)
        z  == IF c2 = 0 THEN 0 ELSE LitEnd(s, c2, <<" ", "@", "@">>)
    IN  IF z = 0 THEN NoMatch
        ELSE [ok |-> TRUE, stop |-> z,
              g1 |-> SubSeq(s, c0, c1 - 1),
              g2 |-> IF c2 = c1 THEN <<>> ELSE SubSeq(s, c1 + 1, c2 - 1)]

(* re.finditer: the leftmost match at or after position i.                 *)
NextMatch(s, i) ==
    LET hits == {j \in i..Len(s) : MatchAt(s, j).ok}
    IN  IF hits = {} THEN NoMatch
        ELSE MatchAt(s, CHOOSE j \in hits : \A h \in hits : j <= h)

(* count = int(match.group(2)) if match.group(2) else 1                    *)
HunkCount(g2) == IF g2 # <<>> THEN ToInt(g2) ELSE 1

HunkRangeOffByOne(hstart, count) == <<hstart, hstart + count>>

(* ranges.append((start, start + count - 1))                               *)
HunkRange(hstart, count) == <<hstart, hstart + count - 1>>

-----------------------------------------------------------------------------
(* merge_ranges: the pieces of its loop.                                   *)

(* Python's order on tuples of two integers.                               *)
TupleLess(a, b) == a[1] < b[1] \/ (a[1] = b[1] /\ a[2] < b[2])

RECURSIVE Insert(_, _)
Insert(r, s) ==
    IF s = <<>> THEN <<r>>
    ELSE IF TupleLess(r, Head(s)) THEN <<r>> \o s
    ELSE <<Head(s)>> \o Insert(r, Tail(s))

RECURSIVE InsertionSort(_)
InsertionSort(s) ==
    IF s = <<>> THEN <<>>
    ELSE Insert(s[Len(s)], InsertionSort(SubSeq(s, 1, Len(s) - 1)))

Unsorted(rs) == rs

(* sorted(ranges)                                                          *)
Sorted(rs) == InsertionSort(rs)

(* (max(1, start - context_lines), end + context_lines)                    *)
Expand(r, cl) == <<Max(1, r[1] - cl), r[2] + cl>>

OverlapsOrAdjacent(range_start, cur_end) == range_start <= cur_end + 1

(* if range_start <= current_end                                           *)
Overlaps(range_start, cur_end) == range_start <= cur_end

(* current_end = range_end                                                 *)
ExtendedEnd(cur_end, range_end) == range_end

ForgottenLast(m, cs, ce) == m

(* merged.append((current_start, current_end)); return merged              *)
Closed(m, cs, ce) == Append(m, <<cs, ce>>)

-----------------------------------------------------------------------------
(* get_relevant_file_content: the pieces of its loop.                      *)

CapRangeWideHalf(r, maxl) ==
    IF r[2] - r[1] + 1 > maxl
    THEN LET mid == (r[1] + r[2]) \div 2
             half_range == (maxl \div 2) + 1
         IN  <<mid - half_range, mid + half_range>>
    ELSE r

(* if end - start + 1 > max_lines_per_range: recentre on the midpoint      *)
CapRange(r, maxl) ==
    IF r[2] - r[1] + 1 > maxl
    THEN LET mid == (r[1] + r[2]) \div 2
             half_range == maxl \div 2
         IN  <<mid - half_range, mid + half_range>>
    ELSE r

(* start = max(1, start); end = min(len(lines), end)                       *)
ClipRange(r, n) == <<Max(1, r[1]), Min(n, r[2])>>

(* Python's s[lo:hi] on a list, for integers lo and hi of either sign.     *)
PySlice(s, lo, hi) ==
    LET n  == Len(s)
        l  == IF lo < 0 THEN Max(lo + n, 0) ELSE Min(lo, n)
        h  == IF hi < 0 THEN Max(hi + n, 0) ELSE Min(hi, n)
    IN  IF l >= h THEN <<>> ELSE SubSeq(s, l + 1, h)

(* Pieces of output text: literal text, a formatted integer, a file line.  *)
Lit(t) == [t |-> t, n |-> 0]
Num(n) == [t |-> "int", n |-> n]
LineTok(i) == [t |-> "line", n |-> i]

(* sep.join(parts), parts a sequence of texts: the parts in order with    *)
(* sep between neighbours (computed by halves to keep the evaluation       *)
(* shallow).                                                               *)
RECURSIVE Join(_, _)
Join(parts, sep) ==
    IF parts = <<>> THEN <<>>
    ELSE IF Len(parts) = 1 THEN parts[1]
    ELSE LET h == Len(parts) \div 2
         IN  Join(SubSeq(parts, 1, h), sep) \o <<sep>>
                 \o Join(SubSeq(parts, h + 1, Len(parts)), sep)

LineToks(ls) == [i \in 1..Len(ls) |-> <<LineTok(ls[i])>>]

(* f"{range_info}\n{range_content}" with range_info "\n[Lines s-e]"        *)
Window(s, e, ls) ==
    <<Lit("\n[Lines "), Num(s), Lit("-"), Num(e), Lit("]"), Lit("\n")>>
        \o Join(LineToks(PySlice(ls, s - 1, e)), Lit("\n"))

(* f"Failed to get file content: {str(e)}"                                 *)
Sentinel(e) == <<Lit("Failed to get file content: "), Lit(e)>>

Propagate(where) == "raised"

(* Where control goes when an exception is raised inside the try block of  *)
(* get_relevant_file_content: the except clause.                           *)
Handler(where) == "grfc_except"

-----------------------------------------------------------------------------
(* Inputs: diff texts written from pieces, raw ranges, files.              *)

(* "-A[,B]" parts of a header and what follows the closing "@@".           *)
HunkForms ==
    { [old |-> <<"1">>, tail |-> <<>>],
      [old |-> <<"1", "0", ",", "3">>, tail |-> <<" ", "f", "(", ")">>] }

PlainForm == [old |-> <<"1">>, tail |-> <<>>]

(* The text of the header "@@ -old +c[,d] @@tail".                         *)
HeaderText(form, c, hasd, d) ==
    <<"@", "@", " ", "-">> \o form.old \o <<" ", "+">> \o Digits(c)
        \o (IF hasd THEN <<",">> \o Digits(d) ELSE <<>>)
        \o <<" ", "@", "@">> \o form.tail

HunkSeg(form, c, hasd, d) ==
    [hunk |-> TRUE, c |-> c, hasd |-> hasd, d |-> d,
     text |-> HeaderText(form, c, hasd, d)]

TextSeg(t) == [hunk |-> FALSE, c |-> 0, hasd |-> FALSE, d |-> 0, text |-> t]

(* Lines of a diff that are no hunk header.                                *)
OtherLines ==
    { <<"+", "x", " ", "=", " ", "1">>,
      <<"@", "@", " ", "-", "1", " ", "+", "2">>,
      <<"@", " ", "-", "1", " ", "+", "2", " ", "@", "@">>,
      <<"@", "@", " ", "-", "1", " ", "+", ",", "2", " ", "@", "@">>,
      <<"@", "@", " ", "-", "1", ",", "2", " ", "+", "3", ",", "4", "@", "@">> }

ParseStarts == {0, 1, MaxStart}
ParseCounts == {0, 1, MaxCount}

ParseSegs ==
    {HunkSeg(f, c, TRUE, d) : f \in HunkForms, c \in ParseStarts, d \in ParseCounts}
        \cup {HunkSeg(f, c, FALSE, 0) : f \in HunkForms, c \in ParseStarts}
        \cup {TextSeg(t) : t \in OtherLines}

ReviewStarts == {0, 1, FarStart}
ReviewCounts == {0, BigCount}

ReviewSegs ==
    {HunkSeg(PlainForm, c, TRUE, d) : c \in ReviewStarts, d \in ReviewCounts}
        \cup {HunkSeg(PlainForm, c, FALSE, 0) : c \in ReviewStarts}

(* The diff text: the pieces, one per line.                                *)
DiffText(ss) == Join([i \in 1..Len(ss) |-> ss[i].text], "\n")

RawRanges == {<<s, e>> : s \in 1..MaxLine, e \in 1..MaxLine} \ {r \in (1..MaxLine) \X (1..MaxLine) : r[1] > r[2]}

(* The two inputs of the specification's overlap example.                  *)
ExampleInputs == { <<<<1, 10>>, <<11, 20>>>>, <<<<1, 10>>, <<10, 20>>>> }

Margins == (0 - NegMargin)..MaxMargin

SpanArgs == (0 - NegSpan)..MaxSpanArg

FileSizes == {0, 1, MaxFileLines}

(* The diff of the specification's extraction example:                     *)
(* "@@ -1,3 +2,4 @@" and "@@ -10 +15,2 @@".                                *)
ExampleSegs ==
    << HunkSeg([old |-> <<"1", ",", "3">>, tail |-> <<>>], 2, TRUE, 4),
       HunkSeg([old |-> <<"1", "0">>, tail |-> <<>>], 15, TRUE, 2) >>

NoFirst == [done |-> FALSE, input |-> <<>>, margin |-> 0, out |-> <<>>]

-----------------------------------------------------------------------------
(* Initial states.                                                         *)

ParseIdle == pos = 0

MergeIdle ==
    /\ sorted_ranges = <<>>
    /\ idx = 0
    /\ current_start = 0
    /\ current_end = 0
    /\ merged = <<>>
    /\ ret = <<>>
    /\ first = NoFirst

GrfcIdle ==
    /\ merged_ranges = <<>>
    /\ lines = <<>>
    /\ k = 0
    /\ start = 0
    /\ end = 0
    /\ relevant_contents = <<>>
    /\ exc = "none"
    /\ file_content = <<>>
    /\ invoked = <<>>

(* A call of parse_diff_hunks(diff).                                       *)
InitParse ==
    /\ entry = "parse_diff_hunks"
    /\ pc = "parse_begin"
    /\ segs \in SeqsUpTo(ParseSegs, MaxHunks) \cup {ExampleSegs}
    /\ diff = DiffText(segs)
    /\ ranges = <<>>
    /\ context_lines = DefaultContextLines
    /\ max_lines_per_range = DefaultMaxLines
    /\ ParseIdle /\ MergeIdle /\ GrfcIdle

(* A call of merge_ranges(ranges, context_lines).                          *)
InitMerge ==
    /\ entry = "merge_ranges"
    /\ pc = "merge_begin"
    /\ segs = <<>>
    /\ diff = <<>>
    /\ ranges \in SeqsUpTo(RawRanges, MaxRanges) \cup ExampleInputs
    /\ context_lines \in Margins
    /\ max_lines_per_range = DefaultMaxLines
    /\ ParseIdle /\ MergeIdle /\ GrfcIdle

(* A call of review_file(file_path, diff, repo), or a call of              *)
(* get_relevant_file_content(repo, file_path, diff, max_lines_per_range).  *)
InitReview ==
    /\ segs \in SeqsUpTo(ReviewSegs, MaxReviewHunks)
    /\ diff = DiffText(segs)
    /\ \/ /\ entry = "review_file"
          /\ pc = "review_file"
          /\ max_lines_per_range = DefaultMaxLines
       \/ /\ entry = "get_relevant_file_content"
          /\ pc = "grfc_begin"
          /\ max_lines_per_range \in SpanArgs
    /\ ranges = <<>>
    /\ context_lines = DefaultContextLines
    /\ ParseIdle /\ MergeIdle /\ GrfcIdle

-----------------------------------------------------------------------------
(* parse_diff_hunks.                                                       *)

mergeVars == <<context_lines, sorted_ranges, idx, current_start, current_end,
               merged, ret, first>>
grfcVars == <<max_lines_per_range, merged_ranges, lines, k, start, end,
              relevant_contents, exc, file_content, invoked>>

(* ranges = []; the iterator of re.finditer starts at the first character. *)
ParseBegin ==
    /\ pc = "parse_begin"
    /\ ranges' = <<>>
    /\ pos' = 1
    /\ pc' = "parse_loop"
    /\ UNCHANGED <<entry, diff, segs, mergeVars, grfcVars>>

(* One turn of the for loop: the next match and its range.                 *)
ParseMatch ==
    /\ pc = "parse_loop"
    /\ NextMatch(diff, pos).ok
    /\ LET match == NextMatch(diff, pos)
           hstart == ToInt(match.g1)
           count == HunkCount(match.g2)
       IN  /\ ranges' = Append(ranges, HunkRange(hstart, count))
           /\ pos' = match.stop
    /\ UNCHANGED <<pc, entry, diff, segs, mergeVars, grfcVars>>

(* No further match: return ranges.                                        *)
ParseReturn ==
    /\ pc = "parse_loop"
    /\ ~NextMatch(diff, pos).ok
    /\ pc' = IF entry = "parse_diff_hunks" THEN "parse_done" ELSE "grfc_merge"
    /\ UNCHANGED <<entry, diff, pos, ranges, segs, mergeVars, grfcVars>>

-----------------------------------------------------------------------------
(* merge_ranges.                                                           *)

MergeContinuation == IF entry = "merge_ranges" THEN "merge_done" ELSE "grfc_fetch"

(* if not ranges: return []                                                *)
MergeEmpty ==
    /\ pc = "merge_begin"
    /\ ranges = <<>>
    /\ ret' = <<>>
    /\ merged_ranges' = IF entry = "merge_ranges" THEN merged_ranges ELSE <<>>
    /\ pc' = MergeContinuation
    /\ UNCHANGED <<entry, diff, pos, ranges, segs, context_lines, sorted_ranges,
                   idx, current_start, current_end, merged, first,
                   max_lines_per_range, lines, k, start, end,
                   relevant_contents, exc, file_content, invoked>>

(* Sort, and open the first range with its context.                        *)
MergeBegin ==
    /\ pc = "merge_begin"
    /\ ranges # <<>>
    /\ sorted_ranges' = Sorted(ranges)
    /\ merged' = <<>>
    /\ current_start' = Expand(sorted_ranges'[1], context_lines)[1]
    /\ current_end' = Expand(sorted_ranges'[1], context_lines)[2]
    /\ idx' = 2
    /\ pc' = "merge_loop"
    /\ UNCHANGED <<entry, diff, pos, ranges, segs, context_lines, ret, first,
                   grfcVars>>

(* A turn of the loop whose range reaches the current one: it is merged.   *)
MergeExtend ==
    /\ pc = "merge_loop"
    /\ idx <= Len(sorted_ranges)
    /\ LET cand == Expand(sorted_ranges[idx], context_lines)
       IN  /\ Overlaps(cand[1], current_end)
           /\ current_end' = ExtendedEnd(current_end, cand[2])
    /\ idx' = idx + 1
    /\ UNCHANGED <<pc, entry, diff, pos, ranges, segs, context_lines,
                   sorted_ranges, current_start, merged, ret, first, grfcVars>>

(* A turn of the loop whose range starts after the current one: the        *)
(* current range is closed and a new one opened.                           *)
MergeClose ==
    /\ pc = "merge_loop"
    /\ idx <= Len(sorted_ranges)
    /\ LET cand == Expand(sorted_ranges[idx], context_lines)
       IN  /\ ~Overlaps(cand[1], current_end)
           /\ merged' = Append(merged, <<current_start, current_end>>)
           /\ current_start' = cand[1]
           /\ current_end' = cand[2]
    /\ idx' = idx + 1
    /\ UNCHANGED <<pc, entry, diff, pos, ranges, segs, context_lines,
                   sorted_ranges, ret, first, grfcVars>>

(* After the loop: close the last range and return.                        *)
MergeReturn ==
    /\ pc = "merge_loop"
    /\ idx > Len(sorted_ranges)
    /\ ret' = Closed(merged, current_start, current_end)
    /\ merged_ranges' = IF entry = "merge_ranges" THEN merged_ranges ELSE ret'
    /\ pc' = MergeContinuation
    /\ UNCHANGED <<entry, diff, pos, ranges, segs, context_lines, sorted_ranges,
                   idx, current_start, current_end, merged, first,
                   max_lines_per_range, lines, k, start, end,
                   relevant_contents, exc, file_content, invoked>>

(* The caller hands the returned list to merge_ranges again, with          *)
(* context_lines = 0.                                                      *)
MergeAgain ==
    /\ pc = "merge_done"
    /\ ~first.done
    /\ first' = [done |-> TRUE, input |-> ranges, margin |-> context_lines,
                 out |-> ret]
    /\ ranges' = ret
    /\ context_lines' = 0
    /\ pc' = "merge_begin"
    /\ UNCHANGED <<entry, diff, pos, segs, sorted_ranges, idx, current_start,
                   current_end, merged, ret, grfcVars>>

-----------------------------------------------------------------------------
(* get_relevant_file_content and review_file.                              *)

(* review_file calls get_relevant_file_content(repo, file_path, diff).     *)
ReviewFileCall ==
    /\ pc = "review_file"
    /\ max_lines_per_range' = DefaultMaxLines
    /\ pc' = "grfc_begin"
    /\ UNCHANGED <<entry, diff, pos, ranges, segs, mergeVars, merged_ranges,
                   lines, k, start, end, relevant_contents, exc, file_content,
                   invoked>>

(* ranges = self.parse_diff_hunks(diff)                                    *)
GrfcParse ==
    /\ pc = "grfc_begin"
    /\ pc' = "parse_begin"
    /\ UNCHANGED <<entry, diff, pos, ranges, segs, mergeVars, grfcVars>>

(* merged_ranges = self.merge_ranges(ranges)                               *)
GrfcMerge ==
    /\ pc = "grfc_merge"
    /\ context_lines' = DefaultContextLines
    /\ pc' = "merge_begin"
    /\ UNCHANGED <<entry, diff, pos, ranges, segs, sorted_ranges, idx,
                   current_start, current_end, merged, ret, first, grfcVars>>

(* The fetch succeeds: a file of n lines, split into lines.                *)
FetchOk ==
    /\ pc = "grfc_fetch"
    /\ \E n \in FileSizes : lines' = [i \in 1..n |-> i]
    /\ relevant_contents' = <<>>
    /\ k' = 1
    /\ pc' = "grfc_loop"
    /\ UNCHANGED <<entry, diff, pos, ranges, segs, mergeVars,
                   max_lines_per_range, merged_ranges, start, end, exc,
                   file_content, invoked>>

(* The fetch raises.                                                       *)
FetchFail ==
    /\ pc = "grfc_fetch"
    /\ exc' = "fetch failed"
    /\ pc' = Handler(pc)
    /\ UNCHANGED <<entry, diff, pos, ranges, segs, mergeVars,
                   max_lines_per_range, merged_ranges, lines, k, start, end,
                   relevant_contents, file_content, invoked>>

(* for start, end in merged_ranges: shrink the range when it is too long.  *)
GrfcCap ==
    /\ pc = "grfc_loop"
    /\ k <= Len(merged_ranges)
    /\ start' = CapRange(merged_ranges[k], max_lines_per_range)[1]
    /\ end' = CapRange(merged_ranges[k], max_lines_per_range)[2]
    /\ pc' = "grfc_clip"
    /\ UNCHANGED <<entry, diff, pos, ranges, segs, mergeVars,
                   max_lines_per_range, merged_ranges, lines, k,
                   relevant_contents, exc, file_content, invoked>>

(* Clip to the file, and append the labelled lines.                        *)
GrfcClip ==
    /\ pc = "grfc_clip"
    /\ start' = ClipRange(<<start, end>>, Len(lines))[1]
    /\ end' = ClipRange(<<start, end>>, Len(lines))[2]
    /\ relevant_contents' = Append(relevant_contents, Window(start', end', lines))
    /\ k' = k + 1
    /\ pc' = "grfc_loop"
    /\ UNCHANGED <<entry, diff, pos, ranges, segs, mergeVars,
                   max_lines_per_range, merged_ranges, lines, exc,
                   file_content, invoked>>

GrfcContinuation == IF entry = "review_file" THEN "review_invoke" ELSE "grfc_done"

(* return "\n\n".join(relevant_contents)                                   *)
GrfcReturn ==
    /\ pc = "grfc_loop"
    /\ k > Len(merged_ranges)
    /\ file_content' = Join(relevant_contents, Lit("\n\n"))
    /\ pc' = GrfcContinuation
    /\ UNCHANGED <<entry, diff, pos, ranges, segs, mergeVars,
                   max_lines_per_range, merged_ranges, lines, k, start, end,
                   relevant_contents, exc, invoked>>

(* except Exception as e: return f"Failed to get file content: {str(e)}"   *)
GrfcExcept ==
    /\ pc = "grfc_except"
    /\ file_content' = Sentinel(exc)
    /\ pc' = GrfcContinuation
    /\ UNCHANGED <<entry, diff, pos, ranges, segs, mergeVars,
                   max_lines_per_range, merged_ranges, lines, k, start, end,
                   relevant_contents, exc, invoked>>

(* return self.file_review_prompt.invoke(context)                          *)
ReviewInvoke ==
    /\ pc = "review_invoke"
    /\ invoked' = Append(invoked, [diff |-> diff, file_content |-> file_content])
    /\ pc' = "review_done"
    /\ UNCHANGED <<entry, diff, pos, ranges, segs, mergeVars,
                   max_lines_per_range, merged_ranges, lines, k, start, end,
                   relevant_contents, exc, file_content>>

-----------------------------------------------------------------------------
(* Specifications.                                                         *)

NextParse == ParseBegin \/ ParseMatch \/ ParseReturn

NextMerge == MergeEmpty \/ MergeBegin \/ MergeExtend \/ MergeClose \/ MergeReturn

(* parse_diff_hunks on its own.                                            *)
SpecParse == InitParse /\ [][NextParse]_vars

(* merge_ranges on its own, then once more on its own output.              *)
Spec == InitMerge /\ [][NextMerge \/ MergeAgain]_vars

NextReview ==
    \/ ReviewFileCall \/ GrfcParse \/ GrfcMerge
    \/ FetchOk \/ FetchFail \/ GrfcCap \/ GrfcClip
    \/ GrfcReturn \/ GrfcExcept \/ ReviewInvoke

(* review_file and get_relevant_file_content, with the calls they make.    *)
SpecReview == InitReview /\ [][NextParse \/ NextMerge \/ NextReview]_vars

-----------------------------------------------------------------------------
(* Properties.                                                             *)

(* Every raw range is a LineRange: 1 <= start <= end.                      *)
InputsValid(rs) == \A i \in 1..Len(rs) : 1 <= rs[i][1] /\ rs[i][1] <= rs[i][2]

(* The expanded footprint of r lies within one range of out.               *)
Covered(r, m, out) ==
    \E j \in 1..Len(out) : out[j][1] <= Max(1, r[1] - m) /\ r[2] + m <= out[j][2]

(* C1: when merge_ranges(ranges, m) returns, for valid raw ranges and      *)
(* m >= 0, the expanded footprint (max(1, s - m), e + m) of every raw      *)
(* range lies within a single returned range.                              *)
C1_Coverage ==
    (pc = "merge_done" /\ context_lines >= 0 /\ InputsValid(ranges))
        => \A i \in 1..Len(ranges) : Covered(ranges[i], context_lines, ret)

(* C2: for valid raw ranges and m >= 0 the returned list is ascending and  *)
(* pairwise disjoint (each start is greater than the previous end), and    *)
(* every returned range has 1 <= start <= end.                             *)
C2_SortedDisjoint ==
    (pc = "merge_done" /\ context_lines >= 0 /\ InputsValid(ranges))
        => \A j \in 1..Len(ret) :
              /\ 1 <= ret[j][1]
              /\ ret[j][1] <= ret[j][2]
              /\ j > 1 => ret[j][1] > ret[j - 1][2]

(* C2's case: a call that both merged two ranges and kept two apart.       *)
C2_Witness ==
    /\ pc = "merge_done"
    /\ context_lines >= 0
    /\ InputsValid(ranges)
    /\ Len(ret) >= 2
    /\ Len(ret) < Len(ranges)

(* The ranges the headers of the diff stand for, in their order:           *)
(* (C, C + D - 1), D being 1 when the header gives no count.               *)
RECURSIVE HeaderRanges(_)
HeaderRanges(ss) ==
    IF ss = <<>> THEN <<>>
    ELSE (IF Head(ss).hunk
          THEN <<<<Head(ss).c,
                   Head(ss).c + (IF Head(ss).hasd THEN Head(ss).d ELSE 1) - 1>>>>
          ELSE <<>>)
         \o HeaderRanges(Tail(ss))

(* C3: parse_diff_hunks returns one range per hunk header of the diff, in  *)
(* the headers' order, each (C, C + D - 1) with D = 1 when the count is    *)
(* omitted; a diff without a header yields the empty list; the diff of the *)
(* specification's example yields [(2,5), (15,16)].                        *)
C3_OnePerHeader ==
    pc = "parse_done"
        => /\ ranges = HeaderRanges(segs)
           /\ segs = ExampleSegs => ranges = <<<<2, 5>>, <<15, 16>>>>

(* C3's case: two headers, one without a count, among other lines or not.  *)
C3_Witness ==
    /\ pc = "parse_done"
    /\ Len(ranges) = 2
    /\ \E i \in 1..Len(segs) : segs[i].hunk /\ ~segs[i].hasd
    /\ \E i \in 1..Len(segs) : segs[i].hunk /\ segs[i].hasd /\ segs[i].c >= 10

(* C4: every range parse_diff_hunks returns has 1 <= start <= end, and a   *)
(* header with the explicit count 0 yields the one-point range (C, C).     *)
(* Stated for headers whose new-file start C is at least 1.                *)
C4_ValidRanges ==
    (pc = "parse_done" /\ \A i \in 1..Len(segs) : segs[i].hunk => segs[i].c >= 1)
        => /\ InputsValid(ranges)
           /\ \A i \in 1..Len(segs) :
                 (Len(segs) = 1 /\ segs[i].hunk /\ segs[i].hasd /\ segs[i].d = 0)
                     => ranges = <<<<segs[i].c, segs[i].c>>>>

(* One turn of merge_ranges' loop merges the candidate into the current    *)
(* range exactly when its expanded start is <= the current end.            *)
C5_Turn ==
    (pc = "merge_loop" /\ pc' = "merge_loop")
        => LET cand == Expand(sorted_ranges[idx], context_lines)
           IN  (merged' = merged /\ current_start' = current_start)
                   <=> cand[1] <= current_end

(* With margin 0, (1,10) and (11,20) stay apart and (1,10) and (10,20)     *)
(* become (1,20).                                                          *)
C5_Examples ==
    (pc' = "merge_done" /\ context_lines = 0 /\ ~first.done)
        => /\ ranges = <<<<1, 10>>, <<11, 20>>>> => ret' = ranges
           /\ ranges = <<<<1, 10>>, <<10, 20>>>> => ret' = <<<<1, 20>>>>

(* C5: overlap-merge, not adjacency-merge: a candidate is merged into the  *)
(* current range if and only if its expanded start is <= the current       *)
(* merged end, so with margin 0 (1,10) and (11,20) stay two ranges while   *)
(* (1,10) and (10,20) merge into (1,20).                                   *)
C5_OverlapNotAdjacency == [][C5_Turn /\ C5_Examples]_vars

(* C5's case: the touching ranges (1,10) and (11,20) were returned apart.  *)
C5_Witness ==
    /\ pc = "merge_done"
    /\ ~first.done
    /\ context_lines = 0
    /\ ranges = <<<<1, 10>>, <<11, 20>>>>
    /\ Len(ret) = 2

(* C7: merge_ranges with margin 0 applied to the list that                 *)
(* merge_ranges(ranges, m) returned, for valid raw ranges and m >= 0,      *)
(* returns that list.                                                      *)
C7_Idempotent ==
    (pc = "merge_done" /\ first.done /\ first.margin >= 0
        /\ InputsValid(first.input))
        => ret = first.out

(* C7's case: the second call returned, on a first result of two ranges    *)
(* that came from merging more.                                            *)
C7_Witness ==
    /\ pc = "merge_done"
    /\ first.done
    /\ first.margin >= 0
    /\ Len(first.out) >= 2
    /\ Len(first.input) > Len(first.out)

(* C9: merge_ranges called with a negative margin fails with an            *)
(* invalid-argument error and returns no ranges.  Stated for calls that    *)
(* pass at least one range.                                                *)
C9_FailsFast ==
    (pc = "merge_done" /\ ~first.done /\ context_lines < 0 /\ ranges # <<>>)
        => (exc = "InvalidArgument" /\ ret = <<>>)

(* The text starts with the marker of unavailable content.                 *)
IsSentinel(text) ==
    text # <<>> /\ Head(text) = Lit("Failed to get file content: ")

(* C8: a failing fetch never leaves get_relevant_file_content or           *)
(* review_file as an exception; the value returned is the marker of        *)
(* unavailable content, which no assembled context is; and review_file     *)
(* invokes the reviewer with the diff and that marker.                     *)
C8_FetchFailureSentinel ==
    /\ pc # "raised"
    /\ (pc \in {"grfc_done", "review_invoke", "review_done"})
           => (IsSentinel(file_content) <=> exc # "none")
    /\ (pc = "review_done" /\ exc # "none")
           => invoked = <<[diff |-> diff, file_content |-> Sentinel(exc)]>>

(* C8's case: the fetch failed and review_file invoked the reviewer.       *)
C8_Witness ==
    /\ pc = "review_done"
    /\ exc # "none"
    /\ Len(invoked) = 1

(* The span cap at work: the merged range in hand is longer than a         *)
(* positive max_lines_per_range, and the cap has just been applied.        *)
CapApplied ==
    /\ pc = "grfc_clip"
    /\ max_lines_per_range >= 1
    /\ merged_ranges[k][2] - merged_ranges[k][1] + 1 > max_lines_per_range

(* The capped range keeps the midpoint of the merged range.                *)
Centred ==
    (start + end) \div 2 = (merged_ranges[k][1] + merged_ranges[k][2]) \div 2

(* A merged range no longer than max_lines_per_range is left as it is.     *)
ShortUnchanged ==
    (/\ pc = "grfc_clip"
     /\ max_lines_per_range >= 1
     /\ merged_ranges[k][2] - merged_ranges[k][1] + 1 <= max_lines_per_range)
        => <<start, end>> = merged_ranges[k]

(* C6 as stated: for every positive maxSpan a merged range longer than     *)
(* maxSpan is replaced by a range of exactly maxSpan + 1 lines centred on  *)
(* its midpoint; shorter ranges are unchanged.                             *)
C6_SpanIsMaxPlusOne ==
    /\ CapApplied => (end - start + 1 = max_lines_per_range + 1 /\ Centred)
    /\ ShortUnchanged

(* C6 amended: the capped range has 2 * (maxSpan div 2) + 1 lines, which   *)
(* is maxSpan + 1 for an even maxSpan and maxSpan for an odd one, and is   *)
(* centred on the midpoint; shorter ranges are unchanged.                  *)
C6_SpanCap ==
    /\ CapApplied
           => /\ end - start + 1 =
                     IF max_lines_per_range % 2 = 0
                     THEN max_lines_per_range + 1
                     ELSE max_lines_per_range
              /\ Centred
    /\ ShortUnchanged

(* C6's case: the cap applied with an odd maxSpan.                         *)
C6_Witness == CapApplied /\ max_lines_per_range % 2 = 1

(* The label and the lines of a window of the assembled text.              *)
WindowStart(w) == w[2].n
WindowEnd(w) == w[4].n
WindowBody(w) == SubSeq(w, 7, Len(w))

(* C10: every window carries a label start-end with                        *)
(* 1 <= start <= end <= N and holds exactly the file's lines start..end,   *)
(* and the windows ascend without overlapping.  Stated for the windows     *)
(* review_file assembles (max_lines_per_range at its default).             *)
C10_WindowsWellFormed ==
    entry = "review_file" => \A i \in 1..Len(relevant_contents) :
        LET w == relevant_contents[i]
        IN  /\ 1 <= WindowStart(w)
            /\ WindowStart(w) <= WindowEnd(w)
            /\ WindowEnd(w) <= Len(lines)
            /\ WindowBody(w) =
                   Join(LineToks(SubSeq(lines, WindowStart(w), WindowEnd(w))),
                        Lit("\n"))
            /\ i > 1 => WindowStart(w) > WindowEnd(relevant_contents[i - 1])

====
